---- MODULE Spec2Model ----
(***************************************************************************)
(* Dental calendar MCP server: the in-memory appointment store and the six *)
(* tool functions of src/dental-mcp-http-server.py (the stdio variant      *)
(* src/dental-mcp-server.py has the same bodies), as a state machine.      *)
(*                                                                         *)
(* Texts (dates, times, slot keys, identifiers) are strings, as in the     *)
(* code. strptime is a table over the texts the model feeds it; strftime   *)
(* and the f-strings are computed with ToString and \o.                    *)
(***************************************************************************)
EXTENDS Integers, Sequences, FiniteSets, TLC

VARIABLES
    appointments,     \* the module-level dict: sequence of [key, apt] in insertion order
    result,           \* what the last tool function returned
    issued,           \* history: the numbers N of the identifiers APT_N handed out, in order
    cancelled,        \* history: the identifiers whose cancel succeeded
    avail_pc,         \* position of the running check_availability call
    avail_args,       \* its arguments
    current_time,     \* its loop cursor (minutes after midnight of the target date)
    available_slots,  \* its list of free start times
    requests,         \* HTTP requests in flight: client -> [pc, args, out]
    session,          \* history: the JSON-RPC requests served, each with its response
    calendar          \* calendar-backed variant: the provider and its events

vars == <<appointments, result, issued, cancelled, avail_pc, avail_args, current_time,
          available_slots, requests, session, calendar>>

storeVars == <<appointments, result, issued, cancelled>>
availVars == <<avail_pc, avail_args, current_time, available_slots>>

----------------------------------------------------------------------------
(* Bounds of the model *)

MaxAppts == 2
MaxBooks == 3
NumClients == 2

----------------------------------------------------------------------------
(* Python values *)

None == "None"

Falsy(x) == x = None \/ x = ""

Pad2(n) == IF n < 10 THEN "0" \o ToString(n) ELSE ToString(n)

Pad4(n) ==
    IF n < 10 THEN "000" \o ToString(n)
    ELSE IF n < 100 THEN "00" \o ToString(n)
    ELSE IF n < 1000 THEN "0" \o ToString(n)
    ELSE ToString(n)

----------------------------------------------------------------------------
(* datetime.strptime / strftime *)

\* What strptime gives when the text does not match the format.
Raised == [ok |-> FALSE]

Date(y, m, d) == [ok |-> TRUE, year |-> y, month |-> m, day |-> d]

TimeOfDay(h, m) == [ok |-> TRUE, minutes |-> h * 60 + m]

\* strptime(text, "%Y-%m-%d"): the date texts the model uses. %m and %d accept
\* one digit, so "2025-6-9" parses to the same date as "2025-06-09".
StrptimeDate(text) ==
    CASE text = "2025-06-09" -> Date(2025, 6, 9)
      [] text = "2025-06-01" -> Date(2025, 6, 1)
      [] text = "2025-06-02" -> Date(2025, 6, 2)
      [] text = "2025-6-9"   -> Date(2025, 6, 9)
      [] text = "2025-06-08" -> Date(2025, 6, 8)
      [] text = "2025-06-10" -> Date(2025, 6, 10)
      [] text = "2025-06-13" -> Date(2025, 6, 13)
      [] text = "2025-06-14" -> Date(2025, 6, 14)
      [] text = "2025-12-25" -> Date(2025, 12, 25)
      [] OTHER -> Raised

\* strptime(text, "%H:%M"). %H accepts one digit ("9:00"); anything that is
\* not hour:minute raises ValueError.
StrptimeTime(text) ==
    CASE text = "09:00" -> TimeOfDay(9, 0)
      [] text = "9:00"  -> TimeOfDay(9, 0)
      [] text = "09:30" -> TimeOfDay(9, 30)
      [] text = "10:00" -> TimeOfDay(10, 0)
      [] text = "12:00" -> TimeOfDay(12, 0)
      [] text = "12:30" -> TimeOfDay(12, 30)
      [] text = "13:00" -> TimeOfDay(13, 0)
      [] text = "14:00" -> TimeOfDay(14, 0)
      [] text = "16:00" -> TimeOfDay(16, 0)
      [] text = "17:00" -> TimeOfDay(17, 0)
      [] text = "03:00" -> TimeOfDay(3, 0)
      [] OTHER -> Raised

\* strptime(f"{date} {start_time}", "%Y-%m-%d %H:%M")
StrptimeDateTime(date, start_time) ==
    IF StrptimeDate(date).ok /\ StrptimeTime(start_time).ok
    THEN [ok |-> TRUE, date |-> StrptimeDate(date), minutes |-> StrptimeTime(start_time).minutes]
    ELSE Raised

\* d.strftime("%Y-%m-%d")
StrftimeDate(d) == ToString(d.year) \o "-" \o Pad2(d.month) \o "-" \o Pad2(d.day)

\* t.strftime("%H:%M")
StrftimeTime(minutes) == Pad2(minutes \div 60) \o ":" \o Pad2(minutes % 60)

\* dt.strftime("%Y-%m-%d %H:%M")
StrftimeDateTime(dt) == StrftimeDate(dt.date) \o " " \o StrftimeTime(dt.minutes)

\* Days of 2025 before the first of each month.
DaysBeforeMonth == <<0, 31, 59, 90, 120, 151, 181, 212, 243, 273, 304, 334>>

\* Day number within 2025 (1 = January 1st).
Ordinal(d) == DaysBeforeMonth[d.month] + d.day

DayNames == <<"monday", "tuesday", "wednesday", "thursday", "friday", "saturday", "sunday">>

\* d.strftime("%A").lower(); 2025-01-01 is a Wednesday.
DayName(d) == DayNames[((Ordinal(d) + 1) % 7) + 1]

----------------------------------------------------------------------------
(* dental_settings: the defaults of load_dental_settings *)

WeekdayHours == [start |-> "09:00", end |-> "17:00", breakStart |-> "12:00", breakEnd |-> "13:00"]

businessHours ==
    [day \in {DayNames[i] : i \in 1..7} |->
        CASE day = "saturday" -> [start |-> "09:00", end |-> "14:00", breakStart |-> None, breakEnd |-> None]
          [] day = "sunday"   -> [start |-> None, end |-> None, breakStart |-> None, breakEnd |-> None]
          [] OTHER            -> WeekdayHours]

appointmentTypes ==
    [tag \in {"cleaning", "checkup", "consultation", "filling", "root_canal", "crown",
              "extraction", "emergency"} |->
        CASE tag = "cleaning"     -> [duration |-> 45, buffer |-> 15]
          [] tag = "checkup"      -> [duration |-> 30, buffer |-> 15]
          [] tag = "consultation" -> [duration |-> 45, buffer |-> 15]
          [] tag = "filling"      -> [duration |-> 60, buffer |-> 15]
          [] tag = "root_canal"   -> [duration |-> 120, buffer |-> 30]
          [] tag = "crown"        -> [duration |-> 90, buffer |-> 30]
          [] tag = "extraction"   -> [duration |-> 45, buffer |-> 15]
          [] OTHER                -> [duration |-> 30, buffer |-> 0]]

DefaultDuration == 30

\* A catalog as config/dental-settings.json can give it (load_dental_settings
\* returns the file's content unchecked): one type of 30 minutes, one of no
\* minutes, one of a negative number of minutes.
fileAppointmentTypes ==
    [tag \in {"checkup", "polish", "voucher"} |->
        CASE tag = "checkup" -> [duration |-> 30, buffer |-> 15]
          [] tag = "polish"  -> [duration |-> 0, buffer |-> 0]
          [] OTHER           -> [duration |-> -30, buffer |-> 0]]

\* Variant: a tag outside the catalog gets one hour.
DurationOrHour(types, appointment_type) ==
    IF appointment_type \in DOMAIN types
    THEN types[appointment_type].duration
    ELSE 60

\* types.get(appointment_type, {}).get("duration", 30)
DurationIn(types, appointment_type) ==
    IF appointment_type \in DOMAIN types
    THEN types[appointment_type].duration
    ELSE DefaultDuration

\* dental_settings["appointmentTypes"].get(appointment_type, {}).get("duration", 30)
Duration(appointment_type) == DurationIn(appointmentTypes, appointment_type)

\* The holiday list of the calendar-backed and debug variants.
Holidays == {"2025-01-01", "2025-07-04", "2025-11-27", "2025-12-25"}

\* int(text.split(":")[0]) and int(text.split(":")[1]) of a configured time
HourOf(text) == StrptimeTime(text).minutes \div 60

MinuteOf(text) == StrptimeTime(text).minutes % 60

----------------------------------------------------------------------------
(* The appointments dict: insertion-ordered, keyed by slot key *)

Keys(appts) == {appts[i].key : i \in 1..Len(appts)}

\* key in appointments
KeyIn(key, appts) == key \in Keys(appts)

KeyIndex(key, appts) == CHOOSE i \in 1..Len(appts) : appts[i].key = key

\* appointments[key] = apt: a new key is appended, an existing key keeps its place
DictSet(appts, key, apt) ==
    IF KeyIn(key, appts)
    THEN [appts EXCEPT ![KeyIndex(key, appts)] = [key |-> key, apt |-> apt]]
    ELSE Append(appts, [key |-> key, apt |-> apt])

\* del appointments[key]
DictDel(appts, key) ==
    LET i == KeyIndex(key, appts)
    IN  SubSeq(appts, 1, i - 1) \o SubSeq(appts, i + 1, Len(appts))

\* for slot_key, apt in appointments.items(): if apt["id"] == appointment_id: ... break
\* The index of the first entry with that id, 0 when the loop finds none.
FindById(appts, appointment_id) ==
    LET hits == {i \in 1..Len(appts) : appts[i].apt.id = appointment_id}
    IN  IF hits = {} THEN 0 ELSE CHOOSE i \in hits : \A j \in hits : i <= j

----------------------------------------------------------------------------
(* Results of the tool functions *)

Outcome(op, kind, id) == [op |-> op, kind |-> kind, id |-> id, shown |-> <<>>, more |-> 0]

NoResult == Outcome("none", "none", None)

----------------------------------------------------------------------------
(* book_appointment *)

\* f"APT_{len(appointments) + 1:04d}"
NextIdNumber(appts) == Len(appts) + 1

IdText(n) == "APT_" \o Pad4(n)

\* The booked test answering "free" for every key.
SlotTakenNever(slot_key, appts) == FALSE

\* slot_key in appointments (the booked test of book_appointment)
SlotTaken(slot_key, appts) == KeyIn(slot_key, appts)

book_appointment(appts, patient_name, patient_email, date, start_time, appointment_type, notes) ==
    LET appointment_datetime == StrptimeDateTime(date, start_time)
    IN  IF ~appointment_datetime.ok
        THEN [store |-> appts, out |-> Outcome("book", "invalid", None)]
        ELSE LET slot_key == StrftimeDateTime(appointment_datetime)
                 appointment ==
                     [id |-> IdText(NextIdNumber(appts)),
                      patient_name |-> patient_name,
                      patient_email |-> patient_email,
                      date |-> date,
                      start_time |-> start_time,
                      appointment_type |-> appointment_type,
                      duration |-> Duration(appointment_type),
                      notes |-> IF Falsy(notes) THEN "" ELSE notes,
                      status |-> "confirmed"]
             IN  IF SlotTaken(slot_key, appts)
                 THEN [store |-> appts, out |-> Outcome("book", "slot_taken", None)]
                 ELSE [store |-> DictSet(appts, slot_key, appointment),
                       out |-> Outcome("book", "booked", appointment.id)]

----------------------------------------------------------------------------
(* reschedule_appointment *)

\* Variant: the slot test comes before the lookup of the identifier.
reschedule_appointment_SlotFirst(appts, appointment_id, new_date, new_start_time) ==
    LET i == FindById(appts, appointment_id)
        new_slot_key == new_date \o " " \o new_start_time
    IN  IF KeyIn(new_slot_key, appts)
        THEN [store |-> appts, out |-> Outcome("reschedule", "slot_taken", appointment_id)]
        ELSE IF i = 0
        THEN [store |-> appts, out |-> Outcome("reschedule", "not_found", appointment_id)]
        ELSE [store |-> DictDel(DictSet(appts, new_slot_key,
                                        [appts[i].apt EXCEPT !.date = new_date,
                                                             !.start_time = new_start_time]),
                                appts[i].key),
              out |-> Outcome("reschedule", "rescheduled", appointment_id)]

\* Variant: the move also rewrites the status field.
reschedule_appointment_Restamped(appts, appointment_id, new_date, new_start_time) ==
    LET i == FindById(appts, appointment_id)
        new_slot_key == new_date \o " " \o new_start_time
    IN  IF i = 0
        THEN [store |-> appts, out |-> Outcome("reschedule", "not_found", appointment_id)]
        ELSE IF KeyIn(new_slot_key, appts)
        THEN [store |-> appts, out |-> Outcome("reschedule", "slot_taken", appointment_id)]
        ELSE [store |-> DictDel(DictSet(appts, new_slot_key,
                                        [appts[i].apt EXCEPT !.date = new_date,
                                                             !.start_time = new_start_time,
                                                             !.status = "rescheduled"]),
                                appts[i].key),
              out |-> Outcome("reschedule", "rescheduled", appointment_id)]

reschedule_appointment(appts, appointment_id, new_date, new_start_time) ==
    LET i == FindById(appts, appointment_id)
    IN  IF i = 0
        THEN [store |-> appts, out |-> Outcome("reschedule", "not_found", appointment_id)]
        ELSE LET old_slot_key == appts[i].key
                 new_slot_key == new_date \o " " \o new_start_time
                 appointment == [appts[i].apt EXCEPT !.date = new_date,
                                                     !.start_time = new_start_time]
             IN  IF KeyIn(new_slot_key, appts)
                 THEN [store |-> appts,
                       out |-> Outcome("reschedule", "slot_taken", appointment_id)]
                 ELSE [store |-> DictDel(DictSet(appts, new_slot_key, appointment), old_slot_key),
                       out |-> Outcome("reschedule", "rescheduled", appointment_id)]

----------------------------------------------------------------------------
(* cancel_appointment *)

cancel_appointment(appts, appointment_id, reason) ==
    LET i == FindById(appts, appointment_id)
    IN  IF i = 0
        THEN [store |-> appts, out |-> Outcome("cancel", "not_found", appointment_id)]
        ELSE [store |-> DictDel(appts, appts[i].key),
              out |-> Outcome("cancel", "cancelled", appointment_id)]

----------------------------------------------------------------------------
(* get_appointment *)

\* The result text names every field of the first appointment with that id.
get_appointment(appts, appointment_id) ==
    LET i == FindById(appts, appointment_id)
    IN  IF i = 0
        THEN [store |-> appts, out |-> Outcome("get", "not_found", appointment_id)]
        ELSE [store |-> appts,
              out |-> [op |-> "get", kind |-> "found", id |-> appointment_id,
                       shown |-> <<appts[i].apt>>, more |-> 0]]

----------------------------------------------------------------------------
(* list_appointments *)

\* ord() of the characters of the texts the model uses
Ord(ch) ==
    CASE ch = " " -> 32 [] ch = "-" -> 45 [] ch = ":" -> 58
      [] ch = "0" -> 48 [] ch = "1" -> 49 [] ch = "2" -> 50 [] ch = "3" -> 51
      [] ch = "4" -> 52 [] ch = "5" -> 53 [] ch = "6" -> 54 [] ch = "7" -> 55
      [] ch = "8" -> 56 [] ch = "9" -> 57
      [] ch = "a" -> 97 [] ch = "m" -> 109 [] ch = "o" -> 111 [] ch = "r" -> 114
      [] ch = "t" -> 116 [] ch = "w" -> 119

\* The characters of a date or time text
Chars(text) ==
    CASE text = "2025-06-09" -> <<"2", "0", "2", "5", "-", "0", "6", "-", "0", "9">>
      [] text = "2025-06-08" -> <<"2", "0", "2", "5", "-", "0", "6", "-", "0", "8">>
      [] text = "2025-06-10" -> <<"2", "0", "2", "5", "-", "0", "6", "-", "1", "0">>
      [] text = "tomorrow"   -> <<"t", "o", "m", "o", "r", "r", "o", "w">>
      [] text = "09:00"      -> <<"0", "9", ":", "0", "0">>
      [] text = "9:00"       -> <<"9", ":", "0", "0">>
      [] text = "09:30"      -> <<"0", "9", ":", "3", "0">>
      [] text = "10:00"      -> <<"1", "0", ":", "0", "0">>
      [] text = "9am"        -> <<"9", "a", "m">>

\* The sort key f"{x['date']} {x['start_time']}", as its characters
SortKey(apt) == Chars(apt.date) \o <<" ">> \o Chars(apt.start_time)

\* a < b for Python strings: by the first differing character, a proper prefix first
RECURSIVE StrLess(_, _)
StrLess(a, b) ==
    IF b = <<>> THEN FALSE
    ELSE IF a = <<>> THEN TRUE
    ELSE IF Ord(Head(a)) # Ord(Head(b)) THEN Ord(Head(a)) < Ord(Head(b))
    ELSE StrLess(Tail(a), Tail(b))

\* sorted(..., key=...) puts x before every element with a greater key and
\* after every element whose key is not greater (a stable sort).
RECURSIVE InsertSorted(_, _)
InsertSorted(sorted, x) ==
    IF sorted = <<>> THEN <<x>>
    ELSE IF StrLess(SortKey(x), SortKey(Head(sorted)))
         THEN <<x>> \o sorted
         ELSE <<Head(sorted)>> \o InsertSorted(Tail(sorted), x)

RECURSIVE Sorted(_)
Sorted(apts) ==
    IF apts = <<>> THEN <<>>
    ELSE InsertSorted(Sorted(SubSeq(apts, 1, Len(apts) - 1)), apts[Len(apts)])

\* The fields of an appointment that a line of the listing names
ListLine(apt) ==
    [id |-> apt.id, patient_name |-> apt.patient_name, date |-> apt.date,
     start_time |-> apt.start_time, appointment_type |-> apt.appointment_type]

DefaultRangeDays == 7

\* start <= appointment_date <= end
InRange(apt, start, end) ==
    /\ Ordinal(start) <= Ordinal(StrptimeDate(apt.date))
    /\ Ordinal(StrptimeDate(apt.date)) <= end

list_appointments(appts, start_date, end_date) ==
    LET start == StrptimeDate(start_date)
        end_ok == Falsy(end_date) \/ StrptimeDate(end_date).ok
        stored_ok == \A i \in 1..Len(appts) : StrptimeDate(appts[i].apt.date).ok
    IN  IF ~start.ok \/ ~end_ok \/ ~stored_ok
        THEN [store |-> appts, out |-> Outcome("list", "invalid", None)]
        ELSE LET end == IF Falsy(end_date)
                        THEN Ordinal(start) + DefaultRangeDays
                        ELSE Ordinal(StrptimeDate(end_date))
                 matching_appointments ==
                     SelectSeq([i \in 1..Len(appts) |-> appts[i].apt],
                               LAMBDA apt : InRange(apt, start, end))
             IN  IF matching_appointments = <<>>
                 THEN [store |-> appts, out |-> Outcome("list", "none_found", None)]
                 ELSE [store |-> appts,
                       out |-> [op |-> "list", kind |-> "appointments", id |-> None,
                                shown |-> [i \in 1..Len(matching_appointments) |->
                                             ListLine(Sorted(matching_appointments)[i])],
                                more |-> 0]]

----------------------------------------------------------------------------
(* Inputs of the tool calls *)

Patients == {"Alice"}

Email(patient_name) == "a@x.com"

BookDates == {"2025-06-09", "2025-06-08", "tomorrow"}

BookTimes == {"09:00", "9:00", "09:30", "9am"}

BookTypes == {"checkup", "root_canal"}

IdTexts == {IdText(n) : n \in 1..(MaxAppts + 1)}

ListStarts == {"2025-06-01", "2025-06-02", "2025-06-09", "tomorrow"}

ListEnds == {None, "2025-06-08", "2025-06-09"}

----------------------------------------------------------------------------
(* The store under sequential tool calls *)

IdleAvail ==
    /\ avail_pc = "idle"
    /\ avail_args = [date |-> None, start_time |-> None, end_time |-> None,
                     appointment_type |-> None]
    /\ current_time = 0
    /\ available_slots = <<>>

Clients == 1..NumClients

\* calendar_service before any call: no service object, no events
NoCalendar == [service |-> None, events |-> <<>>, fetched |-> None]

NoArgs == [patient_name |-> None, date |-> None, start_time |-> None, appointment_type |-> None]

NoRequests ==
    requests = [c \in Clients |-> [pc |-> "idle", args |-> NoArgs, out |-> NoResult,
                                   concurrent |-> FALSE]]

Init ==
    /\ appointments = <<>>
    /\ result = NoResult
    /\ issued = <<>>
    /\ cancelled = {}
    /\ IdleAvail
    /\ NoRequests
    /\ session = <<>>
    /\ calendar = NoCalendar

Book(patient_name, date, start_time, appointment_type) ==
    LET r == book_appointment(appointments, patient_name, Email(patient_name), date,
                              start_time, appointment_type, None)
    IN  /\ Len(r.store) <= MaxAppts
        /\ Len(issued) < MaxBooks
        /\ appointments' = r.store
        /\ result' = r.out
        /\ issued' = IF r.out.kind = "booked"
                     THEN Append(issued, NextIdNumber(appointments))
                     ELSE issued
        /\ UNCHANGED <<cancelled, availVars, requests, session, calendar>>

Reschedule(appointment_id, new_date, new_start_time) ==
    LET r == reschedule_appointment(appointments, appointment_id, new_date, new_start_time)
    IN  /\ appointments' = r.store
        /\ result' = r.out
        /\ UNCHANGED <<issued, cancelled, availVars, requests, session, calendar>>

Cancel(appointment_id) ==
    LET r == cancel_appointment(appointments, appointment_id, None)
    IN  /\ appointments' = r.store
        /\ result' = r.out
        /\ cancelled' = IF r.out.kind = "cancelled"
                        THEN cancelled \cup {appointment_id}
                        ELSE cancelled
        /\ UNCHANGED <<issued, availVars, requests, session, calendar>>

Get(appointment_id) ==
    LET r == get_appointment(appointments, appointment_id)
    IN  /\ result' = r.out
        /\ appointments' = r.store
        /\ UNCHANGED <<issued, cancelled, availVars, requests, session, calendar>>

List(start_date, end_date) ==
    LET r == list_appointments(appointments, start_date, end_date)
    IN  /\ result' = r.out
        /\ appointments' = r.store
        /\ UNCHANGED <<issued, cancelled, availVars, requests, session, calendar>>

Next ==
    \/ \E p \in Patients, d \in BookDates, t \in BookTimes, ty \in BookTypes : Book(p, d, t, ty)
    \/ \E id \in IdTexts, d \in BookDates, t \in BookTimes : Reschedule(id, d, t)
    \/ \E id \in IdTexts : Cancel(id)
    \/ \E id \in IdTexts : Get(id)
    \/ \E sd \in ListStarts, ed \in ListEnds : List(sd, ed)

Spec == Init /\ [][Next]_vars

----------------------------------------------------------------------------
(* check_availability *)

\* Everything before the slot loop: the date is parsed, the weekday's hours are
\* looked up, the duration is resolved and the cursor and the end are set.
\* The parameter start_time is not read, and end_time is rebound to the closing
\* hour before it is read.
AvailSetupIn(types, date, start_time, end_time, appointment_type) ==
    LET target_date == StrptimeDate(date)
    IN  IF ~target_date.ok
        THEN [kind |-> "invalid"]
        ELSE LET day_name == DayName(target_date)
                 business_hours == businessHours[day_name]
             IN  IF Falsy(business_hours.start)
                 THEN [kind |-> "closed_no_hours"]
                 ELSE [kind |-> "open",
                       target_date |-> target_date,
                       business_hours |-> business_hours,
                       duration |-> DurationIn(types, appointment_type),
                       current_time |-> HourOf(business_hours.start) * 60,
                       end_time |-> HourOf(business_hours.end) * 60]

\* With the catalog of the defaults
AvailSetup(date, start_time, end_time, appointment_type) ==
    AvailSetupIn(appointmentTypes, date, start_time, end_time, appointment_type)

\* business_hours.get("breakStart") and business_hours.get("breakEnd")
HasBreak(business_hours) == ~Falsy(business_hours.breakStart) /\ ~Falsy(business_hours.breakEnd)

BreakStart(business_hours) == HourOf(business_hours.breakStart) * 60 + MinuteOf(business_hours.breakStart)

BreakEnd(business_hours) == HourOf(business_hours.breakEnd) * 60 + MinuteOf(business_hours.breakEnd)

\* Variant: the jump over the break leaves the cursor at the start of the break.
LoopBodyStuck(appts, target_date, business_hours, duration, st) ==
    IF /\ HasBreak(business_hours)
       /\ BreakStart(business_hours) <= st.current_time
       /\ st.current_time < BreakEnd(business_hours)
    THEN [st EXCEPT !.current_time = BreakStart(business_hours)]
    ELSE LET slot_key == StrftimeDate(target_date) \o " " \o StrftimeTime(st.current_time)
         IN  [current_time |-> st.current_time + duration,
              available_slots |->
                  IF KeyIn(slot_key, appts)
                  THEN st.available_slots
                  ELSE Append(st.available_slots, StrftimeTime(st.current_time))]

\* One iteration of "while current_time < end_time": st is the pair
\* [current_time, available_slots] on entry, the value is the pair on exit.
LoopBody(appts, target_date, business_hours, duration, st) ==
    IF /\ HasBreak(business_hours)
       /\ BreakStart(business_hours) <= st.current_time
       /\ st.current_time < BreakEnd(business_hours)
    THEN [st EXCEPT !.current_time = BreakEnd(business_hours)]
    ELSE LET slot_key == StrftimeDate(target_date) \o " " \o StrftimeTime(st.current_time)
         IN  [current_time |-> st.current_time + duration,
              available_slots |->
                  IF KeyIn(slot_key, appts)
                  THEN st.available_slots
                  ELSE Append(st.available_slots, StrftimeTime(st.current_time))]

ShownSlots == 10

\* The text returned after the loop: the first ten slots by name, the rest as a count.
AvailResult(slots) ==
    IF Len(slots) > 0
    THEN [op |-> "check", kind |-> "slots", id |-> None,
          shown |-> SubSeq(slots, 1, IF Len(slots) > ShownSlots THEN ShownSlots ELSE Len(slots)),
          more |-> IF Len(slots) > ShownSlots THEN Len(slots) - ShownSlots ELSE 0]
    ELSE Outcome("check", "no_slots", None)

\* The loop "while current_time < end_time" from the state st to its exit
RECURSIVE SlotLoop(_, _, _)
SlotLoop(appts, s, st) ==
    IF st.current_time < s.end_time
    THEN SlotLoop(appts, s, LoopBody(appts, s.target_date, s.business_hours, s.duration, st))
    ELSE st.available_slots

\* The whole call: its outcome, and the list available_slots it was built from.
check_availability(appts, date, start_time, end_time, appointment_type) ==
    LET s == AvailSetup(date, start_time, end_time, appointment_type)
    IN  IF s.kind # "open"
        THEN [out |-> Outcome("check", s.kind, None), available_slots |-> <<>>]
        ELSE LET slots == SlotLoop(appts, s, [current_time |-> s.current_time,
                                             available_slots |-> <<>>])
             IN  [out |-> AvailResult(slots), available_slots |-> slots]

----------------------------------------------------------------------------
(* One check_availability call, iteration by iteration, over stores that       *)
(* book_appointment builds. The tool functions contain no await, so the store *)
(* does not change while the loop runs.                                       *)

AvailDates == {"2025-06-09", "2025-06-08", "2025-06-14", "2025-12-25", "tomorrow"}

AvailTypes == DOMAIN appointmentTypes \cup {"whitening"}

AvailBookTimes == {"09:00", "09:30"}

\* No window, and the window [13:00, 14:00)
AvailWindows == {[start_time |-> None, end_time |-> None],
                 [start_time |-> "13:00", end_time |-> "14:00"]}

InitAvail == Init

AvailBook(start_time) ==
    /\ avail_pc # "loop"
    /\ Book("Alice", "2025-06-09", start_time, "checkup")

\* Variant: the list of slots is kept from one call to the next.
AvailCall_Stale(date, start_time, end_time, appointment_type) ==
    LET s == AvailSetup(date, start_time, end_time, appointment_type)
    IN  /\ avail_pc # "loop"
        /\ avail_args' = [date |-> date, start_time |-> start_time, end_time |-> end_time,
                          appointment_type |-> appointment_type]
        /\ IF s.kind = "open"
           THEN /\ avail_pc' = "loop"
                /\ current_time' = s.current_time
                /\ UNCHANGED available_slots
                /\ UNCHANGED result
           ELSE /\ avail_pc' = "done"
                /\ current_time' = 0
                /\ available_slots' = <<>>
                /\ result' = Outcome("check", s.kind, None)
        /\ UNCHANGED <<appointments, issued, cancelled, requests, session, calendar>>

AvailCall(date, start_time, end_time, appointment_type) ==
    LET s == AvailSetup(date, start_time, end_time, appointment_type)
    IN  /\ avail_pc # "loop"
        /\ avail_args' = [date |-> date, start_time |-> start_time, end_time |-> end_time,
                          appointment_type |-> appointment_type]
        /\ IF s.kind = "open"
           THEN /\ avail_pc' = "loop"
                /\ current_time' = s.current_time
                /\ available_slots' = <<>>
                /\ UNCHANGED result
           ELSE /\ avail_pc' = "done"
                /\ current_time' = 0
                /\ available_slots' = <<>>
                /\ result' = Outcome("check", s.kind, None)
        /\ UNCHANGED <<appointments, issued, cancelled, requests, session, calendar>>

AvailIter ==
    LET s == AvailSetup(avail_args.date, avail_args.start_time, avail_args.end_time,
                        avail_args.appointment_type)
        st == LoopBody(appointments, s.target_date, s.business_hours, s.duration,
                       [current_time |-> current_time, available_slots |-> available_slots])
    IN  /\ avail_pc = "loop"
        /\ current_time < s.end_time
        /\ current_time' = st.current_time
        /\ available_slots' = st.available_slots
        /\ UNCHANGED <<avail_pc, avail_args, appointments, result, issued, cancelled, requests, session, calendar>>

AvailReturn ==
    LET s == AvailSetup(avail_args.date, avail_args.start_time, avail_args.end_time,
                        avail_args.appointment_type)
    IN  /\ avail_pc = "loop"
        /\ ~(current_time < s.end_time)
        /\ avail_pc' = "done"
        /\ result' = AvailResult(available_slots)
        /\ UNCHANGED <<avail_args, current_time, available_slots, appointments, issued, cancelled, requests, session, calendar>>

NextAvail ==
    \/ \E t \in AvailBookTimes : AvailBook(t)
    \/ \E d \in AvailDates, w \in AvailWindows, ty \in AvailTypes :
           AvailCall(d, w.start_time, w.end_time, ty)
    \/ AvailIter
    \/ AvailReturn

SpecAvail == InitAvail /\ [][NextAvail]_vars

\* Calls without a window
NextLoop ==
    \/ \E t \in AvailBookTimes : AvailBook(t)
    \/ \E d \in AvailDates, ty \in AvailTypes : AvailCall(d, None, None, ty)
    \/ AvailIter
    \/ AvailReturn

\* A call that has started keeps running: the loop body and the return are
\* straight-line code without a suspension point.
SpecLoopFair == InitAvail /\ [][NextLoop]_vars /\ WF_vars(AvailIter) /\ WF_vars(AvailReturn)

----------------------------------------------------------------------------
(* The reading calls (check_availability, list_appointments, get_appointment)  *)
(* between bookings                                                            *)

ReadDates == {"2025-06-09", "2025-06-14", "tomorrow"}

ReadTypes == {"checkup", "root_canal"}

ReadStarts == {"2025-06-09", "2025-06-10", "tomorrow"}

InitRead == Init

\* A handler runs to its end before the next request is taken up.
ReadGet(appointment_id) ==
    /\ avail_pc # "loop"
    /\ Get(appointment_id)

ReadList(start_date, end_date) ==
    /\ avail_pc # "loop"
    /\ List(start_date, end_date)

NextRead ==
    \/ \E t \in AvailBookTimes : AvailBook(t)
    \/ \E d \in ReadDates, w \in AvailWindows, ty \in ReadTypes :
           AvailCall(d, w.start_time, w.end_time, ty)
    \/ AvailIter
    \/ AvailReturn
    \/ \E id \in IdTexts : ReadGet(id)
    \/ \E sd \in ReadStarts : ReadList(sd, None)

SpecRead == InitRead /\ [][NextRead]_vars

----------------------------------------------------------------------------
(* check_availability under a catalog read from the settings file. The loop   *)
(* is followed for at most MaxSlots listed slots.                             *)

MaxSlots == 16

ConfigDates == {"2025-06-09", "2025-06-14"}

InitConfig == Init

ConfigSetup ==
    AvailSetupIn(fileAppointmentTypes, avail_args.date, avail_args.start_time,
                 avail_args.end_time, avail_args.appointment_type)

ConfigCall(date, appointment_type) ==
    LET s == AvailSetupIn(fileAppointmentTypes, date, None, None, appointment_type)
    IN  /\ avail_pc # "loop"
        /\ s.kind = "open"
        /\ avail_args' = [date |-> date, start_time |-> None, end_time |-> None,
                          appointment_type |-> appointment_type]
        /\ avail_pc' = "loop"
        /\ current_time' = s.current_time
        /\ available_slots' = <<>>
        /\ UNCHANGED <<appointments, result, issued, cancelled, requests, session, calendar>>

ConfigIter ==
    LET s == ConfigSetup
        st == LoopBody(appointments, s.target_date, s.business_hours, s.duration,
                       [current_time |-> current_time, available_slots |-> available_slots])
    IN  /\ avail_pc = "loop"
        /\ current_time < s.end_time
        /\ Len(available_slots) < MaxSlots
        /\ current_time' = st.current_time
        /\ available_slots' = st.available_slots
        /\ UNCHANGED <<avail_pc, avail_args, appointments, result, issued, cancelled, requests, session, calendar>>

ConfigReturn ==
    /\ avail_pc = "loop"
    /\ ~(current_time < ConfigSetup.end_time)
    /\ avail_pc' = "done"
    /\ result' = AvailResult(available_slots)
    /\ UNCHANGED <<avail_args, current_time, available_slots, appointments, issued, cancelled, requests, session, calendar>>

NextConfig ==
    \/ \E d \in ConfigDates, ty \in DOMAIN fileAppointmentTypes : ConfigCall(d, ty)
    \/ ConfigIter
    \/ ConfigReturn

SpecConfig == InitConfig /\ [][NextConfig]_vars

----------------------------------------------------------------------------
(* Concurrent book requests on the HTTP transport. mcp_endpoint suspends once, *)
(* at "await request.json()"; handle_tool_call and book_appointment run from   *)
(* there to the return without another suspension point, so the event loop     *)
(* runs each of them as one step and interleaves whole requests.               *)

PatientOf(c) == "patient" \o ToString(c)

ConcDates == {"2025-06-09", "tomorrow"}

ConcTimes == {"09:00", "9:00", "09:30"}

InitConc == Init

\* A client posts tools/call book_appointment; the endpoint awaits the body.
Post(c, date, start_time) ==
    /\ requests[c].pc = "idle"
    /\ requests' = [requests EXCEPT ![c] =
           [pc |-> "received",
            args |-> [patient_name |-> PatientOf(c), date |-> date,
                      start_time |-> start_time, appointment_type |-> "checkup"],
            out |-> NoResult,
            concurrent |-> FALSE]]
    /\ UNCHANGED <<storeVars, availVars, session, calendar>>

\* The endpoint resumes with the body and runs book_appointment to its return.
Handle(c) ==
    LET a == requests[c].args
        r == book_appointment(appointments, a.patient_name, Email(a.patient_name), a.date,
                              a.start_time, a.appointment_type, None)
    IN  /\ requests[c].pc = "received"
        /\ appointments' = r.store
        /\ result' = r.out
        /\ issued' = IF r.out.kind = "booked"
                     THEN Append(issued, NextIdNumber(appointments))
                     ELSE issued
        /\ UNCHANGED cancelled
        /\ requests' = [requests EXCEPT ![c] =
               [pc |-> "responded", args |-> a, out |-> r.out,
                concurrent |-> \E o \in Clients \ {c} : requests[o].pc = "received"]]
        /\ UNCHANGED <<availVars, session, calendar>>

NextConc ==
    \/ \E c \in Clients, d \in ConcDates, t \in ConcTimes : Post(c, d, t)
    \/ \E c \in Clients : Handle(c)

SpecConc == InitConc /\ [][NextConc]_vars

----------------------------------------------------------------------------
(* The JSON-RPC endpoint POST /mcp. A request body is [id, method, params];   *)
(* an id is written as its JSON text, None when the body carries none.         *)

MethodNotFound == -32601

\* Variant: the list of tools lacks cancel_appointment.
ToolNamesWithoutCancel ==
    <<"check_availability", "book_appointment", "list_appointments", "get_appointment",
      "reschedule_appointment">>

\* The names in result.tools of the tools/list response, in order
ToolNames ==
    <<"check_availability", "book_appointment", "list_appointments", "get_appointment",
      "reschedule_appointment", "cancel_appointment">>

\* arguments.get(name)
Arg(arguments, name) == IF name \in DOMAIN arguments THEN arguments[name] ELSE None

\* arguments.get("appointment_type", "checkup")
TypeArg(arguments) ==
    IF "appointment_type" \in DOMAIN arguments THEN arguments.appointment_type ELSE "checkup"

ResultResponse(id, carries, tools, out) ==
    [id |-> id, kind |-> "result", code |-> 0, carries |-> carries, tools |-> tools, out |-> out]

ErrorResponse(id, code) ==
    [id |-> id, kind |-> "error", code |-> code, carries |-> None, tools |-> <<>>,
     out |-> NoResult]

\* strptime(None, ...) raises TypeError, which the tool functions catch with
\* "except Exception" and report as an error text.
handle_tool_call(appts, body) ==
    LET tool_name == body.params.name
        arguments == body.params.arguments
        call ==
            CASE tool_name = "check_availability" ->
                   [store |-> appts,
                    out |-> IF Arg(arguments, "date") = None
                            THEN Outcome("check", "error", None)
                            ELSE check_availability(appts, Arg(arguments, "date"),
                                                    Arg(arguments, "start_time"),
                                                    Arg(arguments, "end_time"),
                                                    TypeArg(arguments)).out]
              [] tool_name = "book_appointment" ->
                   book_appointment(appts, Arg(arguments, "patient_name"),
                                    Arg(arguments, "patient_email"), Arg(arguments, "date"),
                                    Arg(arguments, "start_time"), TypeArg(arguments),
                                    Arg(arguments, "notes"))
              [] tool_name = "list_appointments" ->
                   IF Arg(arguments, "start_date") = None
                   THEN [store |-> appts, out |-> Outcome("list", "error", None)]
                   ELSE list_appointments(appts, Arg(arguments, "start_date"),
                                          Arg(arguments, "end_date"))
              [] tool_name = "get_appointment" ->
                   get_appointment(appts, Arg(arguments, "appointment_id"))
              [] tool_name = "reschedule_appointment" ->
                   reschedule_appointment(appts, Arg(arguments, "appointment_id"),
                                          Arg(arguments, "new_date"),
                                          Arg(arguments, "new_start_time"))
              [] tool_name = "cancel_appointment" ->
                   cancel_appointment(appts, Arg(arguments, "appointment_id"),
                                      Arg(arguments, "reason"))
              [] OTHER -> [store |-> appts, out |-> NoResult]
    IN  IF call.out = NoResult
        THEN [store |-> appts, response |-> ErrorResponse(body.id, MethodNotFound)]
        ELSE [store |-> call.store,
              response |-> ResultResponse(body.id, "content", <<>>, call.out)]

mcp_endpoint(appts, body) ==
    CASE body.method = "initialize" ->
           [store |-> appts, response |-> ResultResponse(body.id, "serverInfo", <<>>, NoResult)]
      [] body.method = "tools/list" ->
           [store |-> appts, response |-> ResultResponse(body.id, "tools", ToolNames, NoResult)]
      [] body.method = "tools/call" -> handle_tool_call(appts, body)
      [] OTHER -> [store |-> appts, response |-> ErrorResponse(body.id, MethodNotFound)]

MaxRequests == 3

RpcIds == {"1", "2", None}

NoParams == [name |-> None, arguments |-> [none |-> None]]

\* The methods of the test client, one more method, and three tool calls:
\* a booking, a lookup and a tool that does not exist.
RpcCalls ==
    {[method |-> m, params |-> NoParams] :
        m \in {"initialize", "notifications/initialized", "tools/list", "resources/list"}}
    \cup
    {[method |-> "tools/call", params |-> p] :
        p \in {[name |-> "book_appointment",
                arguments |-> [patient_name |-> "Alice", patient_email |-> "a@x.com",
                               date |-> "2025-06-09", start_time |-> "09:00"]],
               [name |-> "get_appointment", arguments |-> [appointment_id |-> "APT_0001"]],
               [name |-> "drop_appointments", arguments |-> [none |-> None]]}}

InitRpc == Init

\* One POST /mcp from the body to the response
Rpc(id, call) ==
    LET body == [id |-> id, method |-> call.method, params |-> call.params]
        r == mcp_endpoint(appointments, body)
    IN  /\ Len(session) < MaxRequests
        /\ session' = Append(session, [request |-> body, response |-> r.response])
        /\ appointments' = r.store
        /\ result' = IF r.response.carries = "content" THEN r.response.out ELSE result
        /\ issued' = IF r.response.out.kind = "booked"
                     THEN Append(issued, NextIdNumber(appointments))
                     ELSE issued
        /\ UNCHANGED <<cancelled, availVars, requests, calendar>>

NextRpc == \E id \in RpcIds, call \in RpcCalls : Rpc(id, call)

SpecRpc == InitRpc /\ [][NextRpc]_vars

----------------------------------------------------------------------------
(* The calendar-backed variant (dental-mcp-production.py). calendar.service   *)
(* is None without credentials; an event is [date, minutes, offset, length]:  *)
(* its start as wall-clock minutes of its date at the UTC offset (minutes) of *)
(* its dateTime text. A datetime is [minutes, aware].                         *)

AmsterdamOffset == 60

ProdSlotMinutes == 30

Naive(minutes) == [minutes |-> minutes, aware |-> FALSE]

\* datetime.fromisoformat(...).astimezone(AMSTERDAM_TZ)
ToAmsterdam(minutes, offset) == [minutes |-> minutes - offset + AmsterdamOffset, aware |-> TRUE]

\* a < b: TypeError when one datetime is offset-aware and the other is naive
DtLess(a, b) ==
    IF a.aware # b.aware THEN Raised ELSE [ok |-> TRUE, value |-> a.minutes < b.minutes]

\* Variant: a failure of the provider is passed on to the caller.
get_events_Raising(cal, fails) ==
    IF Falsy(cal.service) THEN [ok |-> TRUE, items |-> <<>>]
    ELSE IF fails THEN [ok |-> FALSE, items |-> <<>>]
    ELSE [ok |-> TRUE, items |-> cal.events]

\* GoogleCalendarService.get_events: no events without a service object or
\* when the request raises (fails)
get_events(cal, fails) ==
    IF Falsy(cal.service) THEN [ok |-> TRUE, items |-> <<>>]
    ELSE IF fails THEN [ok |-> TRUE, items |-> <<>>]
    ELSE [ok |-> TRUE, items |-> cal.events]

\* What the last get_events call met
Fetched(cal, fails) ==
    IF Falsy(cal.service) THEN "unconfigured" ELSE IF fails THEN "failed" ELSE "ok"

\* The busy periods of the target date, sorted by start
RECURSIVE InsertBusy(_, _)
InsertBusy(sorted, x) ==
    IF sorted = <<>> THEN <<x>>
    ELSE IF x.busy_start.minutes < Head(sorted).busy_start.minutes
         THEN <<x>> \o sorted
         ELSE <<Head(sorted)>> \o InsertBusy(Tail(sorted), x)

RECURSIVE BusyPeriods(_, _)
BusyPeriods(events, target_date) ==
    IF events = <<>> THEN <<>>
    ELSE LET rest == BusyPeriods(SubSeq(events, 1, Len(events) - 1), target_date)
             e == events[Len(events)]
         IN  IF StrptimeDate(e.date) = target_date
             THEN InsertBusy(rest, [busy_start |-> ToAmsterdam(e.minutes, e.offset),
                                    busy_end |-> ToAmsterdam(e.minutes + e.length, e.offset)])
             ELSE rest

\* The inner loop over busy_periods: is_available, or the TypeError of a comparison
\* slot_start is the loop's current_time
RECURSIVE IsAvailable(_, _, _)
IsAvailable(slot_start, slot_end, busy_periods) ==
    IF busy_periods = <<>> THEN [ok |-> TRUE, value |-> TRUE]
    ELSE LET before_end == DtLess(slot_start, Head(busy_periods).busy_end)
             after_start == DtLess(Head(busy_periods).busy_start, slot_end)
         IN  IF ~before_end.ok THEN Raised
             ELSE IF ~before_end.value
                  THEN IsAvailable(slot_start, slot_end, Tail(busy_periods))
             ELSE IF ~after_start.ok THEN Raised
             ELSE IF after_start.value THEN [ok |-> TRUE, value |-> FALSE]
             ELSE IsAvailable(slot_start, slot_end, Tail(busy_periods))

\* The loop "while current_time < end_time" of the production variant
RECURSIVE ProdSlotLoop(_, _, _, _)
ProdSlotLoop(minutes, end_minutes, busy_periods, slots) ==
    IF ~(minutes < end_minutes) THEN [ok |-> TRUE, slots |-> slots]
    ELSE LET free == IsAvailable(Naive(minutes), Naive(minutes + ProdSlotMinutes), busy_periods)
         IN  IF ~free.ok THEN [ok |-> FALSE, slots |-> slots]
             ELSE ProdSlotLoop(minutes + ProdSlotMinutes, end_minutes, busy_periods,
                               IF free.value THEN Append(slots, StrftimeTime(minutes))
                                             ELSE slots)

prod_check_availability(cal, fails, date, appointment_type) ==
    LET target_date == StrptimeDate(date)
        closed(kind) == [out |-> Outcome("check", kind, None), available_slots |-> <<>>]
    IN  IF ~target_date.ok THEN closed("invalid")
        ELSE IF DayName(target_date) \in {"saturday", "sunday"} THEN closed("closed_no_hours")
        ELSE IF date \in Holidays THEN closed("closed_holiday")
        ELSE LET end_hour == IF DayName(target_date) = "friday" THEN 16 ELSE 17
                 events == get_events(cal, fails)
             IN  IF ~events.ok THEN closed("error")
                 ELSE LET loop == ProdSlotLoop(9 * 60, end_hour * 60,
                                               BusyPeriods(events.items, target_date), <<>>)
                      IN  IF ~loop.ok THEN closed("error")
                          ELSE [out |-> AvailResult(loop.slots), available_slots |-> loop.slots]

\* start_time in availability_result: the text names the first ten slots as
\* "- HH:MM", so a time H:MM is found inside 0H:MM.
InText(start_time, out) ==
    /\ out.kind = "slots"
    /\ \E k \in 1..Len(out.shown) :
           out.shown[k] = start_time \/ out.shown[k] = "0" \o start_time

\* fails_list, fails_insert: the request of get_events, of create_event raises
prod_book_appointment(cal, fails_list, fails_insert, patient_name, patient_email, date, start_time, appointment_type, notes) ==
    LET appointment_datetime == StrptimeDateTime(date, start_time)
        refused(kind) == [cal |-> cal, out |-> Outcome("book", kind, None)]
    IN  IF ~appointment_datetime.ok THEN refused("error")
        ELSE LET availability_result ==
                     prod_check_availability(cal, fails_list, date, appointment_type).out
             IN  IF availability_result.kind = "no_slots" \/ ~InText(start_time, availability_result)
                 THEN refused("not_available")
                 ELSE IF Falsy(cal.service) \/ fails_insert
                 THEN refused("create_failed")
                 ELSE [cal |-> [cal EXCEPT !.events =
                                   Append(@, [date |-> date,
                                              minutes |-> appointment_datetime.minutes,
                                              offset |-> AmsterdamOffset,
                                              length |-> ProdSlotMinutes])],
                       out |-> Outcome("book", "booked", "event" \o ToString(Len(cal.events) + 1))]

MaxEvents == 2

ProdDates == {"2025-06-09", "2025-06-13", "2025-06-14", "2025-12-25", "tomorrow"}

ProdTimes == {"09:00", "9:00", "14:00", "16:00"}

\* The module is loaded with or without the credentials of the calendar.
InitProd ==
    /\ appointments = <<>>
    /\ result = NoResult
    /\ issued = <<>>
    /\ cancelled = {}
    /\ IdleAvail
    /\ NoRequests
    /\ session = <<>>
    /\ calendar \in {[NoCalendar EXCEPT !.service = sv] : sv \in {None, "service"}}

ProdCheck(date, fails) ==
    LET r == prod_check_availability(calendar, fails, date, "checkup")
    IN  /\ avail_pc' = "done"
        /\ avail_args' = [date |-> date, start_time |-> None, end_time |-> None,
                          appointment_type |-> "checkup"]
        /\ available_slots' = r.available_slots
        /\ result' = r.out
        /\ calendar' = [calendar EXCEPT !.fetched = Fetched(calendar, fails)]
        /\ UNCHANGED <<appointments, issued, cancelled, current_time, requests, session>>

ProdBook(date, start_time, fails_list, fails_insert) ==
    LET r == prod_book_appointment(calendar, fails_list, fails_insert, "Alice", "a@x.com",
                                   date, start_time, "checkup", None)
    IN  /\ Len(r.cal.events) <= MaxEvents
        /\ result' = r.out
        /\ calendar' = [r.cal EXCEPT !.fetched = Fetched(calendar, fails_list)]
        /\ UNCHANGED <<appointments, issued, cancelled, availVars, requests, session>>

NextProd ==
    \/ \E d \in ProdDates, f \in BOOLEAN : ProdCheck(d, f)
    \/ \E d \in ProdDates, t \in ProdTimes, fl \in BOOLEAN, fi \in BOOLEAN :
           ProdBook(d, t, fl, fi)

SpecProd == InitProd /\ [][NextProd]_vars

----------------------------------------------------------------------------
(* The debug variant (debug-server.py): its own in-memory dict, keyed by the   *)
(* raw text of date and start time, and slots generated hour by hour.          *)

\* for minute in [0, 30]: the inner loop of one hour, with its break
RECURSIVE DebugMinuteLoop(_, _, _, _, _, _)
DebugMinuteLoop(appts, date, hour, end_hour, minutes, slots) ==
    IF minutes = <<>> THEN slots
    ELSE LET minute == Head(minutes)
             slot_time == Pad2(hour) \o ":" \o Pad2(minute)
             slot_key == date \o " " \o slot_time
         IN  IF hour = end_hour /\ minute > 0 THEN slots
             ELSE DebugMinuteLoop(appts, date, hour, end_hour, Tail(minutes),
                                  IF ~KeyIn(slot_key, appts) THEN Append(slots, slot_time)
                                                             ELSE slots)

\* for hour in range(9, end_hour + 1)
RECURSIVE DebugHourLoop(_, _, _, _, _)
DebugHourLoop(appts, date, hour, end_hour, slots) ==
    IF hour >= end_hour + 1 THEN slots
    ELSE DebugHourLoop(appts, date, hour + 1, end_hour,
                       DebugMinuteLoop(appts, date, hour, end_hour, <<0, 30>>, slots))

debug_check_availability(appts, date, start_time, end_time, appointment_type) ==
    LET target_date == StrptimeDate(date)
        closed(kind) == [out |-> Outcome("check", kind, None), available_slots |-> <<>>]
    IN  IF ~target_date.ok THEN closed("invalid")
        ELSE IF DayName(target_date) \in {"saturday", "sunday"} THEN closed("closed_no_hours")
        ELSE IF date \in Holidays THEN closed("closed_holiday")
        ELSE LET end_hour == IF DayName(target_date) = "friday" THEN 16 ELSE 17
                 slots == DebugHourLoop(appts, date, 9, end_hour, <<>>)
             IN  [out |-> AvailResult(slots), available_slots |-> slots]

debug_book_appointment(appts, patient_name, patient_email, date, start_time, appointment_type, notes) ==
    LET slot_key == date \o " " \o start_time
        appointment == [id |-> IdText(NextIdNumber(appts)),
                        patient_name |-> patient_name,
                        patient_email |-> patient_email,
                        date |-> date,
                        start_time |-> start_time,
                        appointment_type |-> appointment_type,
                        notes |-> IF Falsy(notes) THEN "" ELSE notes,
                        status |-> "confirmed"]
    IN  IF KeyIn(slot_key, appts)
        THEN [store |-> appts, out |-> Outcome("book", "slot_taken", None)]
        ELSE [store |-> DictSet(appts, slot_key, appointment),
              out |-> Outcome("book", "booked", appointment.id)]

DebugDates == {"2025-06-09", "2025-06-13", "2025-06-14", "2025-12-25", "tomorrow"}

DebugTimes == {"09:00", "16:00", "16:30", "17:00"}

InitDebug == Init

DebugCheck(date) ==
    LET r == debug_check_availability(appointments, date, None, None, "checkup")
    IN  /\ avail_pc' = "done"
        /\ avail_args' = [date |-> date, start_time |-> None, end_time |-> None,
                          appointment_type |-> "checkup"]
        /\ available_slots' = r.available_slots
        /\ result' = r.out
        /\ UNCHANGED <<appointments, issued, cancelled, current_time, requests, session,
                       calendar>>

DebugBook(date, start_time) ==
    LET r == debug_book_appointment(appointments, "Alice", Email("Alice"), date, start_time,
                                    "checkup", None)
    IN  /\ Len(r.store) <= MaxAppts
        /\ appointments' = r.store
        /\ result' = r.out
        /\ UNCHANGED <<issued, cancelled, availVars, requests, session, calendar>>

NextDebug ==
    \/ \E d \in DebugDates : DebugCheck(d)
    \/ \E d \in DebugDates, t \in DebugTimes : DebugBook(d, t)

SpecDebug == InitDebug /\ [][NextDebug]_vars

----------------------------------------------------------------------------
(* Lookups and moves: the store under calls for two dates and two spellings
   of one start time *)

MoveDates == {"2025-06-09", "2025-06-10"}

MoveTimes == {"09:00", "9:00"}

\* One type of the catalog and one tag that is not in it
MoveTypes == {"root_canal", "whitening"}

InitMove == Init

NextMove ==
    \/ \E p \in Patients, d \in MoveDates, t \in MoveTimes, ty \in MoveTypes :
           Book(p, d, t, ty)
    \/ \E id \in IdTexts, d \in MoveDates, t \in MoveTimes : Reschedule(id, d, t)
    \/ \E id \in IdTexts : Cancel(id)
    \/ \E id \in IdTexts : Get(id)

SpecMove == InitMove /\ [][NextMove]_vars

----------------------------------------------------------------------------
(* Vocabulary of the claims *)

\* The slot key of a (date, start time) pair: the pair in normal form
\* (YYYY-MM-DD HH:MM); a pair that does not parse has only its own text.
SlotKey(date, start_time) ==
    LET dt == StrptimeDateTime(date, start_time)
    IN  IF dt.ok THEN StrftimeDateTime(dt) ELSE date \o " " \o start_time

SlotKeyOf(apt) == SlotKey(apt.date, apt.start_time)

Active == 1..Len(appointments)

\* The active appointments whose own date and start time give this slot key.
ActiveAt(appts, slot_key) == {i \in 1..Len(appts) : SlotKeyOf(appts[i].apt) = slot_key}

\* A date is open iff it is no holiday and its weekday has an open and a close time.
IsOpenDate(date) ==
    LET d == StrptimeDate(date)
    IN  /\ d.ok
        /\ StrftimeDate(d) \notin Holidays
        /\ ~Falsy(businessHours[DayName(d)].start)
        /\ ~Falsy(businessHours[DayName(d)].end)

HoursOf(date) == businessHours[DayName(StrptimeDate(date))]

OpenMinute(date) == StrptimeTime(HoursOf(date).start).minutes

CloseMinute(date) == StrptimeTime(HoursOf(date).end).minutes

\* [from, to) meets the break window of the date
MeetsBreak(date, from, to) ==
    /\ HasBreak(HoursOf(date))
    /\ from < BreakEnd(HoursOf(date))
    /\ BreakStart(HoursOf(date)) < to

\* The appointment's start lies in the business hours of an open date, outside the break.
InBusinessHours(apt) ==
    /\ IsOpenDate(apt.date)
    /\ StrptimeTime(apt.start_time).ok
    /\ LET m == StrptimeTime(apt.start_time).minutes
       IN  /\ OpenMinute(apt.date) <= m
           /\ m < CloseMinute(apt.date)
           /\ ~MeetsBreak(apt.date, m, m + 1)

\* The two appointments are on the same date and their intervals
\* [start, start + duration) have a minute in common.
Overlap(a, b) ==
    /\ StrptimeDateTime(a.date, a.start_time).ok
    /\ StrptimeDateTime(b.date, b.start_time).ok
    /\ StrptimeDate(a.date) = StrptimeDate(b.date)
    /\ LET sa == StrptimeTime(a.start_time).minutes
           sb == StrptimeTime(b.start_time).minutes
       IN  sa < sb + b.duration /\ sb < sa + a.duration

MinutesOfDay == 0..1439

Listed(slots) == {slots[i] : i \in 1..Len(slots)}

\* The start times 09:00 .. 11:30 and 13:00 .. 16:30, every thirty minutes.
FourteenSlots ==
    <<"09:00", "09:30", "10:00", "10:30", "11:00", "11:30", "13:00", "13:30",
      "14:00", "14:30", "15:00", "15:30", "16:00", "16:30">>

----------------------------------------------------------------------------
(* Claims about the store (Spec) *)

\* C1: after any sequence of book, reschedule and cancel calls no two distinct
\* active appointments have the same slot key (the normalized date and start
\* time, so that 9:00 and 09:00 of one date are one key).
C1_UniqueSlotKeys ==
    \A i, j \in Active :
        i # j => SlotKeyOf(appointments[i].apt) # SlotKeyOf(appointments[j].apt)

\* C2: a book call for a (date, start time) that an active appointment occupies
\* returns slot-taken and leaves the store as it was, with exactly one
\* appointment at that slot key.
C2_BookOccupiedIsRejected ==
    [][\A p \in Patients, d \in BookDates, t \in BookTimes, ty \in BookTypes :
          (Book(p, d, t, ty) /\ StrptimeDateTime(d, t).ok
                             /\ ActiveAt(appointments, SlotKey(d, t)) # {})
          => /\ result'.kind = "slot_taken"
             /\ appointments' = appointments
             /\ Cardinality(ActiveAt(appointments', SlotKey(d, t))) = 1]_vars

\* C4: every successful book assigns an identifier greater than every identifier
\* assigned by an earlier successful book, cancelled appointments included: no
\* identifier is handed out twice.
C4_IdentifiersIncrease ==
    \A i, j \in 1..Len(issued) : i < j => issued[i] < issued[j]

\* C5: every active appointment starts inside the business hours of its weekday,
\* outside the break window, on an open date (no holiday, a day with hours).
C5_ActiveWithinBusinessHours ==
    \A i \in Active : InBusinessHours(appointments[i].apt)

\* C6: the intervals [start, start + duration) of two distinct active
\* appointments on the same date do not overlap.
C6_NoOverlap ==
    \A i, j \in Active : i # j => ~Overlap(appointments[i].apt, appointments[j].apt)

----------------------------------------------------------------------------
(* Claims about check_availability (SpecAvail) *)

AvailDone == avail_pc = "done" /\ result.op = "check"

\* C7: on an open date, for every type of the catalog, every start time s that
\* check_availability lists has [s, s + duration) clear of the break window and
\* s + duration <= closing time.
C7_ListedSlotsFit ==
    (AvailDone /\ result.kind = "slots" /\ avail_args.appointment_type \in DOMAIN appointmentTypes)
    => \A m \in MinutesOfDay :
          StrftimeTime(m) \in Listed(result.shown)
          => LET to == m + Duration(avail_args.appointment_type)
             IN  /\ ~MeetsBreak(avail_args.date, m, to)
                 /\ to <= CloseMinute(avail_args.date)

\* C8: Monday 2025-06-09, checkup (30 minutes), empty store: check_availability
\* yields the fourteen starts 09:00 .. 11:30, 13:00 .. 16:30 in ascending order,
\* without 12:00 and 12:30, and all fourteen are reported to the caller.
C8_MondayCheckupFourteen ==
    (AvailDone /\ appointments = <<>>
              /\ avail_args = [date |-> "2025-06-09", start_time |-> None, end_time |-> None,
                               appointment_type |-> "checkup"])
    => /\ available_slots = FourteenSlots
       /\ result.kind = "slots"
       /\ result.shown = FourteenSlots

\* C9: check_availability answers closed (not "no free slots") for a date that
\* is not open, and treats a date as open iff it is no holiday and its weekday
\* has an open and a close time.
C9_ClosedIffNotOpen ==
    (AvailDone /\ StrptimeDate(avail_args.date).ok)
    => /\ IsOpenDate(avail_args.date) <=> result.kind \in {"slots", "no_slots"}
       /\ ~IsOpenDate(avail_args.date) <=> result.kind \in {"closed_no_hours", "closed_holiday"}

\* C10: check_availability has two closed outcomes, "closed: holiday" for a date
\* of the holiday set and "closed: no hours" for a weekday without hours; a
\* holiday is never answered with a list of slots.
C10_HolidayClosed ==
    (AvailDone /\ StrptimeDate(avail_args.date).ok)
    => /\ avail_args.date \in Holidays => result.kind = "closed_holiday"
       /\ (avail_args.date \notin Holidays /\ Falsy(HoursOf(avail_args.date).start))
              => result.kind = "closed_no_hours"

----------------------------------------------------------------------------
(* Claims about concurrent requests (SpecConc) *)

Responded(c) == requests[c].pc = "responded" /\ StrptimeDateTime(requests[c].args.date, requests[c].args.start_time).ok

RequestKey(c) == SlotKey(requests[c].args.date, requests[c].args.start_time)

\* C3: of the book requests for one slot key that the transport handles
\* concurrently exactly one succeeds and every other one observes slot-taken;
\* the store holds one appointment for the slot, the winner's.
C3_ExactlyOneWinner ==
    \A c \in Clients :
        Responded(c)
        => LET same == {o \in Clients : Responded(o) /\ RequestKey(o) = RequestKey(c)}
               won == {o \in same : requests[o].out.kind = "booked"}
               at == ActiveAt(appointments, RequestKey(c))
           IN  /\ Cardinality(won) = 1
               /\ \A o \in same \ won : requests[o].out.kind = "slot_taken"
               /\ Cardinality(at) = 1
               /\ \A i \in at, w \in won :
                      /\ appointments[i].apt.patient_name = requests[w].args.patient_name
                      /\ appointments[i].apt.id = requests[w].out.id

\* Two requests for one slot key were in flight together; one booked, the other
\* got slot-taken.
C3_Witness ==
    \E c, o \in Clients :
        /\ c # o
        /\ Responded(c) /\ Responded(o)
        /\ RequestKey(c) = RequestKey(o)
        /\ requests[c].concurrent
        /\ requests[c].out.kind = "booked"
        /\ requests[o].out.kind = "slot_taken"

----------------------------------------------------------------------------
(* Claims about reschedule, cancel, get and list (Spec, SpecMove) *)

\* The listing names this appointment.
Includes(out, apt) ==
    /\ out.kind = "appointments"
    /\ \E k \in 1..Len(out.shown) : out.shown[k] = ListLine(apt)

\* A new booking of this (date, start time) succeeds.
Bookable(appts, date, start_time) ==
    \E p \in Patients, ty \in BookTypes :
        book_appointment(appts, p, Email(p), date, start_time, ty, None).out.kind = "booked"

\* C11: a reschedule of an active appointment to a (date, start time) whose slot
\* key a different active appointment occupies returns slot-taken and changes
\* nothing in the store.
C11_RescheduleOccupiedIsRejected ==
    [][result'.op = "reschedule" =>
        \A d \in BookDates, t \in BookTimes :
            LET i == FindById(appointments, result'.id)
            IN  (/\ Reschedule(result'.id, d, t)
                 /\ i # 0
                 /\ ActiveAt(appointments, SlotKey(d, t)) \ {i} # {})
                => /\ result'.kind = "slot_taken"
                   /\ appointments' = appointments]_vars

\* C12: after a successful reschedule of id to (d, t), get(id) reports d and t,
\* the listing of the new date names the appointment, the listing of the old
\* date (when it is another date) does not, and the old (date, start time) can
\* be booked again.
C12_RescheduleIsVisible ==
    [][(result'.op = "reschedule" /\ result'.kind = "rescheduled") =>
        \A d \in BookDates, t \in BookTimes :
            Reschedule(result'.id, d, t) =>
                LET old == appointments[FindById(appointments, result'.id)].apt
                    new == [old EXCEPT !.date = d, !.start_time = t]
                    got == get_appointment(appointments', result'.id).out
                IN  /\ got.kind = "found"
                    /\ got.shown[1].date = d
                    /\ got.shown[1].start_time = t
                    /\ Includes(list_appointments(appointments', d, d).out, new)
                    /\ old.date # d
                       => ~Includes(list_appointments(appointments', old.date, old.date).out, new)
                    /\ Bookable(appointments', old.date, old.start_time)]_vars

\* C13: every active appointment is stored under exactly one key, and that key
\* is the slot key of the appointment's own date and start time.
C13_KeyAgreesWithFields ==
    \A i \in Active :
        /\ appointments[i].key = SlotKeyOf(appointments[i].apt)
        /\ \A j \in Active : appointments[j].key = appointments[i].key => j = i

\* C14: after a successful cancel(id) no listing names the appointment, get(id)
\* returns not found, and the appointment's (date, start time) can be booked.
C14_CancelRemoves ==
    [][(result'.op = "cancel" /\ result'.kind = "cancelled") =>
        LET old == appointments[FindById(appointments, result'.id)].apt
        IN  /\ get_appointment(appointments', result'.id).out.kind = "not_found"
            /\ \A sd \in ListStarts, ed \in ListEnds :
                   ~Includes(list_appointments(appointments', sd, ed).out, old)
            /\ Bookable(appointments', old.date, old.start_time)]_vars

\* C15: once cancel(id) has succeeded, get(id), cancel(id) and reschedule(id, ...)
\* return not found in every later state.
C15_CancelledIsTerminal ==
    \A id \in cancelled :
        /\ get_appointment(appointments, id).out.kind = "not_found"
        /\ cancel_appointment(appointments, id, None).out.kind = "not_found"
        /\ \A d \in BookDates, t \in BookTimes :
               reschedule_appointment(appointments, id, d, t).out.kind = "not_found"

\* a is not later than b, by (date, start time); lines whose start time is no
\* time of day are not compared.
NotLater(a, b) ==
    LET da == Ordinal(StrptimeDate(a.date))
        db == Ordinal(StrptimeDate(b.date))
        ta == StrptimeTime(a.start_time)
        tb == StrptimeTime(b.start_time)
    IN  (ta.ok /\ tb.ok) => (da < db \/ (da = db /\ ta.minutes <= tb.minutes))

\* C16: every listing is in ascending order of (date, start time).
C16_ListingIsChronological ==
    \A sd \in ListStarts, ed \in ListEnds :
        LET out == list_appointments(appointments, sd, ed).out
        IN  out.kind = "appointments" =>
                \A k \in 1..(Len(out.shown) - 1) : NotLater(out.shown[k], out.shown[k + 1])

\* The active appointments whose date lies in [start_date, end_date], the end
\* being seven days after the start when none is given.
InRangeSet(appts, start_date, end_date) ==
    LET first == Ordinal(StrptimeDate(start_date))
        last == IF end_date = None THEN first + 7 ELSE Ordinal(StrptimeDate(end_date))
    IN  {i \in 1..Len(appts) :
            /\ StrptimeDate(appts[i].apt.date).ok
            /\ first <= Ordinal(StrptimeDate(appts[i].apt.date))
            /\ Ordinal(StrptimeDate(appts[i].apt.date)) <= last}

\* C17: a listing from start_date to end_date (start_date + 7 days when the end
\* is omitted) names exactly the active appointments dated in that range.
C17_ListingIsTheRange ==
    \A sd \in ListStarts, ed \in ListEnds :
        (StrptimeDate(sd).ok /\ (ed = None \/ StrptimeDate(ed).ok)) =>
            LET out == list_appointments(appointments, sd, ed).out
                expected == InRangeSet(appointments, sd, ed)
            IN  IF expected = {}
                THEN out.kind = "none_found"
                ELSE /\ out.kind = "appointments"
                     /\ Len(out.shown) = Cardinality(expected)
                     /\ Listed(out.shown) = {ListLine(appointments[i].apt) : i \in expected}

\* C18: get, reschedule and cancel of an identifier that no active appointment
\* has return not found and leave the store as it was, also when the slot a
\* reschedule asks for is occupied.
C18_UnknownIdIsNotFound ==
    [][(/\ result'.op \in {"get", "reschedule", "cancel"}
        /\ FindById(appointments, result'.id) = 0)
       => /\ result'.kind = "not_found"
          /\ appointments' = appointments]_vars

\* A reschedule of an unknown identifier was answered not found, and it is the
\* answer that call gives for a slot of the store that is occupied.
C18_Witness ==
    /\ result.op = "reschedule"
    /\ result.kind = "not_found"
    /\ FindById(appointments, result.id) = 0
    /\ \E d \in MoveDates, t \in MoveTimes :
           /\ SlotTaken(d \o " " \o t, appointments)
           /\ reschedule_appointment(appointments, result.id, d, t).out = result

\* C19: a book or a reschedule (of an active appointment) whose date and start
\* time do not parse returns invalid input and leaves the store as it was.
C19_UnparseableIsInvalid ==
    [][result'.op \in {"book", "reschedule"} =>
        \A d \in BookDates, t \in BookTimes :
            ~StrptimeDateTime(d, t).ok =>
                /\ (\E p \in Patients, ty \in BookTypes : Book(p, d, t, ty))
                   => (result'.kind = "invalid" /\ appointments' = appointments)
                /\ (Reschedule(result'.id, d, t) /\ FindById(appointments, result'.id) # 0)
                   => (result'.kind = "invalid" /\ appointments' = appointments)]_vars

\* C20: a successful reschedule leaves every field of the appointment but date
\* and start time as it was, and every other appointment of the store as it was.
C20_RescheduleChangesOnlySlot ==
    [][(result'.op = "reschedule" /\ result'.kind = "rescheduled") =>
        LET i == FindById(appointments, result'.id)
            old == appointments[i].apt
        IN  /\ Len(appointments') = Len(appointments)
            /\ \E j \in 1..Len(appointments') :
                   /\ \A f \in DOMAIN old \ {"date", "start_time"} :
                          appointments'[j].apt[f] = old[f]
                   /\ {appointments'[k] : k \in 1..Len(appointments') \ {j}}
                      = {appointments[k] : k \in Active \ {i}}]_vars

\* A root canal with its 120 minutes was moved while another appointment is stored.
C20_Witness ==
    /\ result.op = "reschedule"
    /\ result.kind = "rescheduled"
    /\ Len(appointments) = 2
    /\ \E i \in Active :
           /\ appointments[i].apt.id = result.id
           /\ appointments[i].apt.appointment_type = "root_canal"
           /\ appointments[i].apt.duration = 120

----------------------------------------------------------------------------
(* Claims about the window, the store and the step of check_availability *)

\* The call was given the window [start_time, end_time).
Windowed == avail_args.start_time # None /\ avail_args.end_time # None

\* C21: when check_availability is given a window [start, end), every start
\* time it lists lies in the window, and every free candidate of the date (the
\* starts the call lists without a window) that lies in the window is listed.
C21_WindowFilters ==
    (AvailDone /\ Windowed /\ result.kind \in {"slots", "no_slots"}) =>
        LET from == StrptimeTime(avail_args.start_time).minutes
            to == StrptimeTime(avail_args.end_time).minutes
            free == check_availability(appointments, avail_args.date, None, None,
                                       avail_args.appointment_type).available_slots
        IN  \A m \in MinutesOfDay :
                /\ StrftimeTime(m) \in Listed(available_slots) => (from <= m /\ m < to)
                /\ (StrftimeTime(m) \in Listed(free) /\ from <= m /\ m < to)
                   => StrftimeTime(m) \in Listed(available_slots)

\* C22: check_availability lists a candidate start time of a date iff no active
\* appointment has that candidate's slot key; so a booked start is not listed,
\* and is listed again once the appointment is cancelled or moved away.
C22_ListedIffFree ==
    \A d \in {"2025-06-09"}, ty \in BookTypes :
        LET listed == check_availability(appointments, d, None, None, ty).available_slots
            candidates == check_availability(<<>>, d, None, None, ty).available_slots
        IN  \A k \in 1..Len(candidates) :
                candidates[k] \in Listed(listed)
                <=> ActiveAt(appointments, SlotKey(d, candidates[k])) = {}

\* C23: a call for a type whose configured duration is zero or negative is
\* answered invalid input; the slot loop is never entered with such a step.
C23_NonPositiveDurationRejected ==
    (avail_pc # "idle" /\ DurationIn(fileAppointmentTypes, avail_args.appointment_type) <= 0)
    => /\ avail_pc = "done"
       /\ result.op = "check"
       /\ result.kind = "invalid"

\* Start times lie on the quarter hours: the opening hours are full hours and
\* the durations are multiples of fifteen minutes.
GridMinutes == {m \in MinutesOfDay : m % 15 = 0}

TimeOfText(text) == CHOOSE m \in GridMinutes : StrftimeTime(m) = text

Ascending(slots) ==
    \A k \in 1..(Len(slots) - 1) : TimeOfText(slots[k]) < TimeOfText(slots[k + 1])

\* C24: for an open date and a type of positive duration the slot loop ends,
\* the cursor is strictly later after every iteration (the jump over the break
\* included), and the start times collected are strictly ascending.
C24_LoopAdvancesAndEnds ==
    /\ [](Ascending(available_slots))
    /\ [][(avail_pc = "loop" /\ avail_pc' = "loop") => current_time' > current_time]_vars
    /\ (avail_pc = "loop") ~> (avail_pc = "done")

\* A call for a 60-minute type on a day with a break has returned: the cursor
\* passed the break and reached the closing time.
C24_Witness ==
    /\ AvailDone
    /\ result.kind = "slots"
    /\ avail_args.date = "2025-06-09"
    /\ avail_args.appointment_type = "filling"
    /\ current_time >= CloseMinute(avail_args.date)
    /\ Len(available_slots) >= 2

\* C25: a book or a check_availability call with a tag that is not in the
\* catalog does not fail: the booked appointment records 30 minutes, and the
\* slots are those of a step of 30 minutes (the slots of a checkup).
C25_UnknownTypeIsThirtyMinutes ==
    /\ result.op = "book" => result.kind \in {"booked", "slot_taken"}
    /\ \A i \in Active :
           appointments[i].apt.appointment_type \notin DOMAIN appointmentTypes
           => appointments[i].apt.duration = 30
    /\ LET r == check_availability(appointments, "2025-06-09", None, None, "whitening")
       IN  /\ r.out.kind \in {"slots", "no_slots"}
           /\ r.available_slots
              = check_availability(appointments, "2025-06-09", None, None, "checkup").available_slots

\* The last call booked an appointment with a tag outside the catalog.
C25_Witness ==
    /\ result.op = "book"
    /\ result.kind = "booked"
    /\ \E i \in Active :
           /\ appointments[i].apt.id = result.id
           /\ appointments[i].apt.appointment_type = "whitening"

\* C28: after any sequence of book, reschedule and cancel calls no two active
\* appointments carry the same identifier.
C28_ActiveIdentifiersDiffer ==
    \A i, j \in Active : i # j => appointments[i].apt.id # appointments[j].apt.id

----------------------------------------------------------------------------
(* Claims about the JSON-RPC endpoint (SpecRpc) *)

\* C27: every request is answered with its own id; initialize is answered with
\* serverInfo and tools/list with exactly the six tools, so a client sending
\* the two in this order gets the two answers in this order; a method other
\* than initialize, tools/list and tools/call, and a tools/call of a tool that
\* is none of the six, is answered with error -32601.
C27_Dispatch ==
    \A k \in 1..Len(session) :
        LET q == session[k].request
            a == session[k].response
            six == {"check_availability", "book_appointment", "list_appointments",
                    "get_appointment", "reschedule_appointment", "cancel_appointment"}
        IN  /\ a.id = q.id
            /\ q.method = "initialize" => (a.kind = "result" /\ a.carries = "serverInfo")
            /\ q.method = "tools/list"
               => /\ a.kind = "result"
                  /\ a.carries = "tools"
                  /\ Len(a.tools) = 6
                  /\ Listed(a.tools) = six
            /\ q.method \notin {"initialize", "tools/list", "tools/call"}
               => (a.kind = "error" /\ a.code = -32601)
            /\ (q.method = "tools/call" /\ q.params.name \notin six)
               => (a.kind = "error" /\ a.code = -32601)

\* initialize (id 1), then tools/list (id 2), then a call of an unknown tool
C27_Witness ==
    /\ Len(session) = 3
    /\ session[1].request.method = "initialize" /\ session[1].request.id = "1"
    /\ session[2].request.method = "tools/list" /\ session[2].request.id = "2"
    /\ session[2].response.tools # <<>>
    /\ session[3].request.method = "tools/call"
    /\ session[3].response.kind = "error"

----------------------------------------------------------------------------
(* Claims about the calendar-backed variant (SpecProd) *)

\* A date the practice is open on: a weekday that is no holiday
OpenDate(date) ==
    /\ StrptimeDate(date).ok
    /\ DayName(StrptimeDate(date)) \notin {"saturday", "sunday"}
    /\ date \notin Holidays

\* The half-hour starts from 09:00 to closing (16:00 on Friday, else 17:00)
GridStarts(date) ==
    LET closing == IF DayName(StrptimeDate(date)) = "friday" THEN 16 ELSE 17
    IN  {9 * 60 + 30 * k : k \in 0..((closing - 9) * 2 - 1)}

\* The slots of slots as a set of minutes
ListedStarts(slots) == {TimeOfText(slots[k]) : k \in 1..Len(slots)}

C29_FreeSlotIsBookable ==
    [][\A d \in ProdDates, t \in ProdTimes :
          (/\ ProdBook(d, t, FALSE, FALSE)
           /\ ~Falsy(calendar.service)
           /\ StrptimeTime(t).ok
           /\ StrptimeTime(t).minutes \in
                  ListedStarts(prod_check_availability(calendar, FALSE, d,
                                                       "checkup").available_slots))
          => result'.kind = "booked"]_vars

\* C30: on an open date with busy periods, check_availability answers with
\* slots or with "no available slots", never an error, and it lists a
\* half-hour slot iff the slot overlaps none of the busy periods.
C30_SlotsAroundBusyPeriods ==
    LET busy_periods == BusyPeriods(calendar.events, StrptimeDate(avail_args.date))
    IN  (/\ result.op = "check"
         /\ calendar.fetched = "ok"
         /\ OpenDate(avail_args.date)
         /\ busy_periods # <<>>)
        => /\ result.kind \in {"slots", "no_slots"}
           /\ \A s \in GridStarts(avail_args.date) :
                  s \in ListedStarts(available_slots)
                  <=> ~\E k \in 1..Len(busy_periods) :
                         /\ s < busy_periods[k].busy_end.minutes
                         /\ s + 30 > busy_periods[k].busy_start.minutes

----------------------------------------------------------------------------
(* Further claims about the store (Spec) *)

\* C31: the date and the start time stored in every active appointment parse
\* (YYYY-MM-DD, HH:MM), so no listing of a valid range is answered with the
\* invalid-date outcome.
C31_StoredTextParses ==
    /\ \A i \in Active :
           /\ StrptimeDate(appointments[i].apt.date).ok
           /\ StrptimeTime(appointments[i].apt.start_time).ok
    /\ \A sd \in ListStarts, ed \in ListEnds :
           (StrptimeDate(sd).ok /\ (ed = None \/ StrptimeDate(ed).ok))
           => list_appointments(appointments, sd, ed).out.kind # "invalid"

\* C34: a reschedule of an active appointment to the date and start time it
\* already has is answered slot taken and leaves the store as it was; the
\* appointment stays in the store.
C34_RescheduleToOwnSlotIsRejected ==
    [][(/\ result'.op = "reschedule"
        /\ FindById(appointments, result'.id) # 0
        /\ LET own == appointments[FindById(appointments, result'.id)].apt
           IN  Reschedule(result'.id, own.date, own.start_time))
       => /\ result'.kind = "slot_taken"
          /\ appointments' = appointments
          /\ FindById(appointments', result'.id) # 0]_vars

----------------------------------------------------------------------------
(* Claims about the debug variant (SpecDebug) *)

\* C32: on an open weekday every start time the debug variant lists is
\* strictly before the closing hour (17:00, 16:00 on Friday), and for an empty
\* store it lists the start times the production variant computes with no
\* busy periods.
C32_DebugSlotsEndBeforeClosing ==
    (/\ result.op = "check"
     /\ avail_pc = "done"
     /\ OpenDate(avail_args.date))
    => LET closing == IF DayName(StrptimeDate(avail_args.date)) = "friday" THEN 16 ELSE 17
       IN  /\ \A k \in 1..Len(available_slots) :
                  TimeOfText(available_slots[k]) < closing * 60
           /\ appointments = <<>>
              => available_slots =
                    prod_check_availability(NoCalendar, FALSE, avail_args.date,
                                            "checkup").available_slots

----------------------------------------------------------------------------
(* Claims about the reading calls (SpecRead) *)

\* C33: check_availability, list_appointments and get_appointment leave the
\* store as it was for every input, and the result of check_availability is
\* the one its arguments and the store determine, whatever was computed
\* before: a second call on an unchanged store returns the same result.
C33_ReadsLeaveTheStore ==
    /\ []((AvailDone /\ result.kind \in {"slots", "no_slots"})
          => /\ result = check_availability(appointments, avail_args.date,
                                            avail_args.start_time, avail_args.end_time,
                                            avail_args.appointment_type).out
             /\ result = AvailResult(available_slots))
    /\ [][(\/ avail_pc = "loop"
           \/ avail_pc' = "loop"
           \/ result'.op \in {"check", "list", "get"})
          => appointments' = appointments]_vars

\* A check of the date of a stored appointment has returned its slots, after
\* an earlier check had left its own
C33_Witness ==
    /\ AvailDone
    /\ result.kind = "slots"
    /\ avail_args.appointment_type = "root_canal"
    /\ \E i \in Active : appointments[i].apt.date = avail_args.date
    /\ Len(available_slots) > 0

====
